---- MODULE Spec2Model ----
(***************************************************************************)
(* A model of shop/views.py of django_shop: the session-bound identity     *)
(* resolver, the user_auth guard, and the register / login / logout /      *)
(* JSON-API handlers, over a store of User records and one session per     *)
(* client.  Handlers are operators that map the current store and session  *)
(* to a result (new store, new session, response); actions apply them.     *)
(* RegisterView.post is split at its database accesses, so that two        *)
(* registrations can interleave between the uniqueness queries and the     *)
(* INSERT.  The goods listing is modelled with its two GET parameters     *)
(* over a store of Goods rows.                                             *)
(***************************************************************************)
EXTENDS Integers, Sequences, FiniteSets, TLC

VARIABLES users, nextId, session, reg, resp, goods, listing

vars == <<users, nextId, session, reg, resp, goods, listing>>

(***************************************************************************)
(* Bounds and sample inputs.                                               *)
(***************************************************************************)
\* ids the store may hand out (AutoField values 1..MaxUsers)
MaxUsers == 2
\* Goods rows the store may hold
MaxGoods == 2
\* browsers, each holding one session cookie
Clients == {1, 2}

\* Python's None: an absent POST field, no role, no redirect target
NONE == "<None>"
\* no user (get_current_user returned None / user_id is None)
NoUser == 0

\* field rules of the forms
UsernameMinLen == 3
UsernameMaxLen == 20
DigestHexLen == 64

\* hex SHA-256 digests of "12345678" and of "87654321"
Digest1 == "ef797c8118f02dfb649607dd5d3f8c7623048c9c063d532cc95c5ed7a898a64f"
Digest2 == "e24df920078c3dd4e7e8d2442f00e5c9ab2a231bb3918d65cc50906e49ecaef4"
RawPassword == "12345678"

RoleNames == {"normal", "seller", "admin"}

(***************************************************************************)
(* Form validators (shop/forms.py), the back-end profiles.                 *)
(***************************************************************************)
CharAt(s, i) == SubSeq(s, i, i)

UsernameValid(v) ==
    /\ v # NONE
    /\ Len(v) >= UsernameMinLen
    /\ Len(v) <= UsernameMaxLen

\* local part, one "@", a domain with a dot between two non-empty parts
EmailValid(v) ==
    /\ v # NONE
    /\ \E i \in 2..(Len(v) - 1) :
          /\ CharAt(v, i) = "@"
          /\ \A k \in 1..Len(v) : CharAt(v, k) = "@" => k = i
          /\ \E j \in (i + 2)..(Len(v) - 1) : CharAt(v, j) = "."

HashedPasswordValid(v) ==
    /\ v # NONE
    /\ Len(v) = DigestHexLen

RegisterBEForm_is_valid(post) ==
    /\ UsernameValid(post.username)
    /\ EmailValid(post.email)
    /\ HashedPasswordValid(post.password)

LoginBEForm_is_valid(post) ==
    /\ UsernameValid(post.username)
    /\ HashedPasswordValid(post.password)

ChangeEmailForm_is_valid(post) ==
    /\ EmailValid(post.curr_email)
    /\ EmailValid(post.new_email)

(***************************************************************************)
(* The store (shop/models.py): User rows keyed by id, username and email   *)
(* unique.                                                                 *)
(***************************************************************************)
DefaultUserType == "normal"

NewUser(username, email, password) ==
    [username |-> username, email |-> email, password |-> password,
     type |-> DefaultUserType]

\* User.objects.filter(username=...) / filter(email=...)
UsersByUsername(us, username) == {i \in DOMAIN us : us[i].username = username}
UsersByEmail(us, email) == {i \in DOMAIN us : us[i].email = email}

\* the unique constraints an INSERT or UPDATE of row i must meet
UniqueViolation(us, i, row) ==
    \E j \in DOMAIN us \ {i} :
        us[j].username = row.username \/ us[j].email = row.email

StorePut(us, i, row) == [j \in DOMAIN us \cup {i} |-> IF j = i THEN row ELSE us[j]]

\* User.check_password
check_password(row, password) == row.password = password

(***************************************************************************)
(* Identity resolver.                                                      *)
(***************************************************************************)
EmptySession == [k \in {} |-> NoUser]

\* associate_user_to_client: None flushes the session, an id is stored
associate_user_to_client(sess, user_id) ==
    IF user_id = NoUser
    THEN EmptySession
    ELSE [k \in DOMAIN sess \cup {"user_id"} |->
             IF k = "user_id" THEN user_id ELSE sess[k]]

\* (mutant) the stale association is kept
get_current_user_keeps_stale(sess, us) ==
    IF "user_id" \in DOMAIN sess /\ sess["user_id"] \in DOMAIN us
    THEN [user |-> sess["user_id"], sess |-> sess]
    ELSE [user |-> NoUser, sess |-> sess]

\* get_current_user: the user (NoUser for None) and the session afterwards
get_current_user(sess, us) ==
    IF "user_id" \notin DOMAIN sess
    THEN [user |-> NoUser, sess |-> sess]                         \* KeyError
    ELSE IF sess["user_id"] \in DOMAIN us
         THEN [user |-> sess["user_id"], sess |-> sess]
         ELSE [user |-> NoUser,                                  \* DoesNotExist
               sess |-> associate_user_to_client(sess, NoUser)]

\* the session holds a user_id that is the id of no User
Dangling(sess, us) == "user_id" \in DOMAIN sess /\ sess["user_id"] \notin DOMAIN us

(***************************************************************************)
(* Responses.  Three fields record the request rather than the reply: ran  *)
(* (the wrapped handler body was entered), role (the role the guard        *)
(* resolved: NONE for anonymous, "-" when the view has no guard) and       *)
(* dangling (the request came with a session whose user_id named no User). *)
(***************************************************************************)
NoForm == <<NONE, NONE>>

Response(c, view, method, ran, role, status, location, errors, form, json) ==
    [client |-> c, view |-> view, method |-> method, ran |-> ran, role |-> role,
     status |-> status, location |-> location, errors |-> errors, form |-> form,
     json |-> json, dangling |-> FALSE]

HttpResponseRedirect(c, view, method, ran, role, location) ==
    Response(c, view, method, ran, role, 302, location, {}, NoForm, NONE)

\* render / form_invalid: a page, with the errors and the data of its form
Render(c, view, method, role, status, errors, form) ==
    Response(c, view, method, TRUE, role, status, NONE, errors, form, NONE)

\* APIResultBuilder ... as_json_response(status)
as_json_response(c, view, method, role, status, message) ==
    Response(c, view, method, TRUE, role, status, NONE, {}, NoForm, message)

\* the POST data of a registration, and a client's registration in flight
RegisterPost(username, email, password, password_again) ==
    [username |-> username, email |-> email, password |-> password,
     password_again |-> password_again]

NoPost == RegisterPost(NONE, NONE, NONE, NONE)

Idle == [pc |-> "idle", post |-> NoPost]

\* what a handler leaves behind: the store, the caller's session, the response
Out(us, nid, sess, r) ==
    [users |-> us, nextId |-> nid, sess |-> sess, resp |-> r, reg |-> Idle]

\* a registration that goes on to its next database access: no response yet
Pending(sess, pc, post) ==
    [users |-> users, nextId |-> nextId, sess |-> sess, resp |-> resp,
     reg |-> [pc |-> pc, post |-> post]]

(***************************************************************************)
(* Authorization guard.                                                    *)
(***************************************************************************)
UserTypeNone == [kind |-> "None", name |-> NONE, names |-> <<>>]
UserTypeStr(name) == [kind |-> "str", name |-> name, names |-> <<>>]
UserTypeList(names) == [kind |-> "list", name |-> NONE, names |-> names]

\* UserType.objects.get(typename=t): the role entity of that name
UserType_get(typename) == typename

\* (mutant) a single role name admits every logged-in caller
authorized_any_role(usertype, current_usertype) ==
    IF usertype.kind = "None"
    THEN current_usertype = NONE
    ELSE IF usertype.kind = "str"
         THEN current_usertype # NONE
         ELSE current_usertype \in
                 {IF usertype.names[k] # NONE
                  THEN UserType_get(usertype.names[k]) ELSE NONE :
                  k \in DOMAIN usertype.names}

\* lines 98-105 of the wrapper
authorized(usertype, current_usertype) ==
    IF usertype.kind = "None"
    THEN current_usertype = NONE
    ELSE IF usertype.kind = "str"
         THEN current_usertype = UserType_get(usertype.name)
         ELSE current_usertype \in
                 {IF usertype.names[k] # NONE
                  THEN UserType_get(usertype.names[k]) ELSE NONE :
                  k \in DOMAIN usertype.names}

\* the wrapper up to its decision: resolves the caller, computes the role
user_auth(c, usertype, error_viewname) ==
    LET cu == get_current_user(session[c], users)
        current_usertype == IF cu.user # NoUser THEN users[cu.user].type ELSE NONE
    IN [authorized |-> authorized(usertype, current_usertype),
        user |-> cu.user,
        role |-> current_usertype,
        sess |-> cu.sess,
        location |-> IF error_viewname = NONE
                     THEN "shop:error_403" ELSE error_viewname]

\* the wrapper's redirect when the caller is not authorized
Unauthorized(c, view, method, g) ==
    Out(users, nextId, g.sess,
        HttpResponseRedirect(c, view, method, FALSE, g.role, g.location))

AllRoles == UserTypeList(<<"normal", "seller", "admin">>)

(***************************************************************************)
(* Pages.                                                                  *)
(***************************************************************************)
\* BasicUserView.get_context_data: the page shows the current user
BasicUserView_get(c, view, role) ==
    LET cu == get_current_user(session[c], users)
    IN Out(users, nextId, cu.sess, Render(c, view, "GET", role, 200, {}, NoForm))

\* GoodsListView / GoodsDetailView without filters: an unguarded page
GoodsListView_get(c) == BasicUserView_get(c, "shop:goods_list", "-")

\* (mutant) the register page without its guard
RegisterView_get_unguarded(c) ==
    LET g == user_auth(c, UserTypeNone, "shop:logout")
    IN Out(users, nextId, g.sess,
           Render(c, "shop:register", "GET", g.role, 200, {}, NoForm))

RegisterView_get(c) ==
    LET g == user_auth(c, UserTypeNone, "shop:logout")
    IN IF g.authorized
       THEN Out(users, nextId, g.sess,
                Render(c, "shop:register", "GET", g.role, 200, {}, NoForm))
       ELSE Unauthorized(c, "shop:register", "GET", g)

LoginView_get(c) ==
    LET g == user_auth(c, UserTypeNone, "shop:logout")
    IN IF g.authorized
       THEN Out(users, nextId, g.sess,
                Render(c, "shop:login", "GET", g.role, 200, {}, NoForm))
       ELSE Unauthorized(c, "shop:login", "GET", g)

MemberInfoView_get(c) ==
    LET g == user_auth(c, UserTypeStr("normal"), NONE)
    IN IF g.authorized
       THEN BasicUserView_get(c, "shop:member_info", g.role)
       ELSE Unauthorized(c, "shop:member_info", "GET", g)

ChangeMemberEmailView_get(c) ==
    LET g == user_auth(c, UserTypeList(<<"normal">>), NONE)
    IN IF g.authorized
       THEN BasicUserView_get(c, "shop:change_member_email", g.role)
       ELSE Unauthorized(c, "shop:change_member_email", "GET", g)

ChangeMemberPasswordView_get(c) ==
    LET g == user_auth(c, UserTypeList(<<"normal">>), NONE)
    IN IF g.authorized
       THEN BasicUserView_get(c, "shop:change_member_password", g.role)
       ELSE Unauthorized(c, "shop:change_member_password", "GET", g)

\* an exception no handler catches: the framework's 500 page
UncaughtException(c, view, method, role, sess) ==
    Out(users, nextId, sess,
        Response(c, view, method, TRUE, role, 500, NONE, {}, NoForm, NONE))

center_enter_view(c) ==
    LET g == user_auth(c, AllRoles, "shop:login")
        cu == get_current_user(g.sess, users)
    IN IF ~g.authorized
       THEN Unauthorized(c, "shop:center", "GET", g)
       ELSE IF cu.user = NoUser
            THEN Out(users, nextId, cu.sess,
                     HttpResponseRedirect(c, "shop:center", "GET", TRUE, g.role,
                                          "shop:goods_list"))
            ELSE IF users[cu.user].type = UserType_get("normal")
                 THEN Out(users, nextId, cu.sess,
                          HttpResponseRedirect(c, "shop:center", "GET", TRUE, g.role,
                                               "shop:member_info"))
                 \* user.typp: AttributeError
                 ELSE UncaughtException(c, "shop:center", "GET", g.role, cu.sess)

error_403_view(c) ==
    Out(users, nextId, session[c],
        Render(c, "shop:error_403", "GET", "-", 403, {}, NoForm))

\* (mutant) only the user_id of an existing User is dropped
logout_view_existing_only(c) ==
    Out(users, nextId,
        IF Dangling(session[c], users) THEN session[c] ELSE EmptySession,
        HttpResponseRedirect(c, "shop:logout", "GET", TRUE, "-", "shop:login"))

logout_view(c) ==
    Out(users, nextId, associate_user_to_client(session[c], NoUser),
        HttpResponseRedirect(c, "shop:logout", "GET", TRUE, "-", "shop:login"))

(***************************************************************************)
(* Goods listing with its GET parameters g (search text) and s (seller     *)
(* id).  Both arrive as strings; the ORM converts s to the integer of the  *)
(* key column.  Letter case is not modelled: names and search texts are    *)
(* lower-case.                                                             *)
(***************************************************************************)
NewGoods(goods_name, seller_id) == [goods_name |-> goods_name, seller_id |-> seller_id]

NoGoods == [i \in {} |-> NewGoods(NONE, NoUser)]

\* request.GET of the listing: NONE for a parameter that is not given
GoodsGet(g, s) == [g |-> g, s |-> s]

Digits == "0123456789"

IsDigit(ch) == \E d \in 1..Len(Digits) : CharAt(Digits, d) = ch

DigitValue(ch) == (CHOOSE d \in 1..Len(Digits) : CharAt(Digits, d) = ch) - 1

\* int(v) of a string of decimal digits
RECURSIVE DecimalValue(_)
DecimalValue(v) ==
    IF Len(v) = 0 THEN 0
    ELSE 10 * DecimalValue(SubSeq(v, 1, Len(v) - 1)) + DigitValue(CharAt(v, Len(v)))

\* the key column's conversion of a lookup value: int(v), or ValueError
IsIntLiteral(v) == Len(v) > 0 /\ \A k \in 1..Len(v) : IsDigit(CharAt(v, k))

\* filter(goods_name__contains=kws)
goods_name__contains(goods_name, kws) ==
    \/ Len(kws) = 0
    \/ \E k \in 1..(Len(goods_name) - Len(kws) + 1) :
          SubSeq(goods_name, k, k + Len(kws) - 1) = kws

\* (mutant) the seller filter replaces the search filter
get_queryset_last_filter_only(GET) ==
    LET all == DOMAIN goods
        found == IF GET.g # NONE /\ GET.s = NONE
                 THEN {i \in all : goods_name__contains(goods[i].goods_name, GET.g)}
                 ELSE all
    IN IF GET.s = NONE
       THEN [raised |-> FALSE, object_list |-> found]
       ELSE IF ~IsIntLiteral(GET.s)
            THEN [raised |-> TRUE, object_list |-> {}]
            ELSE [raised |-> FALSE,
                  object_list |->
                      {i \in found : goods[i].seller_id = DecimalValue(GET.s)}]

\* GoodsListView.get_queryset: the ids of the Goods listed
get_queryset(GET) ==
    LET all == DOMAIN goods
        found == IF GET.g # NONE
                 THEN {i \in all : goods_name__contains(goods[i].goods_name, GET.g)}
                 ELSE all
    IN IF GET.s = NONE
       THEN [raised |-> FALSE, object_list |-> found]
       ELSE IF ~IsIntLiteral(GET.s)
            THEN [raised |-> TRUE, object_list |-> {}]             \* ValueError
            ELSE [raised |-> FALSE,
                  object_list |->
                      {i \in found : goods[i].seller_id = DecimalValue(GET.s)}]

\* get_object_or_404(User, id=request.GET['s']) finds no User
Http404(GET) == GET.s # NONE /\ DecimalValue(GET.s) \notin DOMAIN users

\* GET of the listing: get_queryset, then get_context_data
GoodsListView_list(c, GET) ==
    LET qs == get_queryset(GET)
        cu == get_current_user(session[c], users)
    IN IF qs.raised
       THEN [out |-> UncaughtException(c, "shop:goods_list", "GET", "-", session[c]),
             object_list |-> {}]
       ELSE IF Http404(GET)
            THEN [out |-> Out(users, nextId, cu.sess,
                              Response(c, "shop:goods_list", "GET", TRUE, "-", 404,
                                       NONE, {}, NoForm, NONE)),
                  object_list |-> {}]
            ELSE [out |-> Out(users, nextId, cu.sess,
                              Render(c, "shop:goods_list", "GET", "-", 200, {},
                                     NoForm)),
                  object_list |-> qs.object_list]

\* the last listing request and its answer
Listing(c, GET, status, object_list) ==
    [client |-> c, g |-> GET.g, s |-> GET.s, status |-> status,
     object_list |-> object_list]

NoListing == Listing(0, GoodsGet(NONE, NONE), 0, {})

(***************************************************************************)
(* Login.                                                                  *)
(***************************************************************************)
LoginPost(username, password) == [username |-> username, password |-> password]

FormatError == "format error"
LoginError == "username or password incorrect"
UsernameUsed == "username already used"
EmailUsed == "email already used"
PasswordMismatch == "passwords differ"

LoginFields == {"username", "password"}
RegisterFields == {"username", "email", "password", "password_again"}

\* (mutant) a wrong password is reported on the password field alone
LoginView_post_names_field(c, post) ==
    LET g == user_auth(c, UserTypeNone, "shop:logout")
        found == UsersByUsername(users, post.username)
        user == CHOOSE i \in found : TRUE
    IN IF ~g.authorized
       THEN Unauthorized(c, "shop:login", "POST", g)
       ELSE IF ~LoginBEForm_is_valid(post)
            THEN Out(users, nextId, g.sess,
                     Render(c, "shop:login", "POST", g.role, 200,
                            {<<f, FormatError>> : f \in LoginFields}, <<"", "">>))
            ELSE IF found = {}
                 THEN Out(users, nextId, g.sess,
                          Render(c, "shop:login", "POST", g.role, 200,
                                 {<<"username", LoginError>>,
                                  <<"password", LoginError>>}, <<"", "">>))
                 ELSE IF ~check_password(users[user], post.password)
                      THEN Out(users, nextId, g.sess,
                               Render(c, "shop:login", "POST", g.role, 200,
                                      {<<"password", LoginError>>}, <<"", "">>))
                      ELSE Out(users, nextId,
                               associate_user_to_client(g.sess, user),
                               HttpResponseRedirect(c, "shop:login", "POST", TRUE,
                                                    g.role, "shop:goods_list"))

\* (mutant) the password is not compared
LoginView_post_no_password(c, post) ==
    LET g == user_auth(c, UserTypeNone, "shop:logout")
        found == UsersByUsername(users, post.username)
        user == CHOOSE i \in found : TRUE
    IN IF ~g.authorized
       THEN Unauthorized(c, "shop:login", "POST", g)
       ELSE IF ~LoginBEForm_is_valid(post)
            THEN Out(users, nextId, g.sess,
                     Render(c, "shop:login", "POST", g.role, 200,
                            {<<f, FormatError>> : f \in LoginFields}, <<"", "">>))
            ELSE IF found = {}
                 THEN Out(users, nextId, g.sess,
                          Render(c, "shop:login", "POST", g.role, 200,
                                 {<<"username", LoginError>>,
                                  <<"password", LoginError>>}, <<"", "">>))
                 ELSE Out(users, nextId,
                          associate_user_to_client(g.sess, user),
                          HttpResponseRedirect(c, "shop:login", "POST", TRUE,
                                               g.role, "shop:goods_list"))

LoginView_post(c, post) ==
    LET g == user_auth(c, UserTypeNone, "shop:logout")
        found == UsersByUsername(users, post.username)
        user == CHOOSE i \in found : TRUE
        rejected == Out(users, nextId, g.sess,
                        Render(c, "shop:login", "POST", g.role, 200,
                               {<<"username", LoginError>>, <<"password", LoginError>>},
                               <<"", "">>))
    IN IF ~g.authorized
       THEN Unauthorized(c, "shop:login", "POST", g)
       ELSE IF ~LoginBEForm_is_valid(post)
            THEN Out(users, nextId, g.sess,
                     Render(c, "shop:login", "POST", g.role, 200,
                            {<<f, FormatError>> : f \in LoginFields}, <<"", "">>))
            ELSE IF found = {}
                 THEN rejected                                  \* DoesNotExist
                 ELSE IF ~check_password(users[user], post.password)
                      THEN rejected                             \* raise DoesNotExist
                      ELSE Out(users, nextId,
                               associate_user_to_client(g.sess, user),
                               HttpResponseRedirect(c, "shop:login", "POST", TRUE,
                                                    g.role, "shop:goods_list"))

(***************************************************************************)
(* Registration, in three steps: the guard, the form check and the         *)
(* username query; the email query and the password comparison; the        *)
(* INSERT with the session binding.                                        *)
(***************************************************************************)
RegisterInvalid(c, sess, errors, post) ==
    Out(users, nextId, sess,
        Render(c, "shop:register", "POST", NONE, 200, errors,
               <<post.username, post.email>>))

\* (mutant) the username query is skipped
RegisterView_post_no_username_query(c, post) ==
    LET g == user_auth(c, UserTypeNone, "shop:logout")
    IN IF ~g.authorized
       THEN Unauthorized(c, "shop:register", "POST", g)
       ELSE IF ~RegisterBEForm_is_valid(post)
            THEN RegisterInvalid(c, g.sess,
                                 {<<f, FormatError>> : f \in RegisterFields}, post)
            ELSE Pending(g.sess, "email", post)

RegisterView_post(c, post) ==
    LET g == user_auth(c, UserTypeNone, "shop:logout")
    IN IF ~g.authorized
       THEN Unauthorized(c, "shop:register", "POST", g)
       ELSE IF ~RegisterBEForm_is_valid(post)
            THEN RegisterInvalid(c, g.sess,
                                 {<<f, FormatError>> : f \in RegisterFields}, post)
            ELSE IF UsersByUsername(users, post.username) # {}
                 THEN RegisterInvalid(c, g.sess, {<<"username", UsernameUsed>>}, post)
                 ELSE Pending(g.sess, "email", post)

\* (mutant) the email query is skipped
RegisterView_post_email_unchecked(c) ==
    LET post == reg[c].post
    IN IF post.password # post.password_again
       THEN RegisterInvalid(c, session[c],
                            {<<"password", PasswordMismatch>>,
                             <<"password_again", PasswordMismatch>>}, post)
       ELSE Pending(session[c], "save", post)

RegisterView_post_email(c) ==
    LET post == reg[c].post
    IN IF UsersByEmail(users, post.email) # {}
       THEN RegisterInvalid(c, session[c], {<<"email", EmailUsed>>}, post)
       ELSE IF post.password # post.password_again
            THEN RegisterInvalid(c, session[c],
                                 {<<"password", PasswordMismatch>>,
                                  <<"password_again", PasswordMismatch>>}, post)
            ELSE Pending(session[c], "save", post)

\* (mutant) IntegrityError is not caught apart: the row is written anyway
RegisterView_post_save_unconstrained(c) ==
    LET post == reg[c].post
        user == NewUser(post.username, post.email, post.password)
    IN Out(StorePut(users, nextId, user), nextId + 1,
           associate_user_to_client(session[c], nextId),
           HttpResponseRedirect(c, "shop:register", "POST", TRUE, NONE,
                                "shop:goods_list"))

RegisterView_post_save(c) ==
    LET post == reg[c].post
        user == NewUser(post.username, post.email, post.password)
    IN IF UniqueViolation(users, nextId, user)
       THEN RegisterInvalid(c, session[c],                      \* IntegrityError
                            {<<f, FormatError>> : f \in RegisterFields}, post)
       ELSE Out(StorePut(users, nextId, user), nextId + 1,
                associate_user_to_client(session[c], nextId),
                HttpResponseRedirect(c, "shop:register", "POST", TRUE, NONE,
                                     "shop:goods_list"))

(***************************************************************************)
(* JSON API.  A handler either returns (raised = FALSE) or raises an       *)
(* exception that APIView.dispatch catches.                                *)
(***************************************************************************)
ApiPost(ext_method, curr_email, new_email, curr_password, new_password, new_password_again) ==
    [ext_method |-> ext_method, curr_email |-> curr_email, new_email |-> new_email,
     curr_password |-> curr_password, new_password |-> new_password,
     new_password_again |-> new_password_again]

api_method_names == {"pull", "create", "update", "delete"}

ApiViews == {"shop:api_user_email", "shop:api_user_password",
             "shop:api_unauthorized_error", "shop:api_server_error"}

\* the API views but the password endpoint
EmailApiViews == ApiViews \ {"shop:api_user_password"}

ChangePasswordBEForm_is_valid(post) ==
    /\ HashedPasswordValid(post.curr_password)
    /\ HashedPasswordValid(post.new_password)
    /\ HashedPasswordValid(post.new_password_again)

Returned(out) == [raised |-> FALSE, out |-> out]
Raised == [raised |-> TRUE, out |-> Out(users, nextId, EmptySession, resp)]

ApiResult(c, view, g, status, message) ==
    Returned(Out(users, nextId, g.sess,
                 as_json_response(c, view, "POST", g.role, status, message)))

\* (mutant) the UPDATE is not held to the unique constraints
ApiSave_unconstrained(c, view, g, user, row, message) ==
    Returned(Out(StorePut(users, user, row), nextId, g.sess,
                 as_json_response(c, view, "POST", g.role, 200, message)))

\* user.save() of a changed row: the UPDATE, or IntegrityError
ApiSave(c, view, g, user, row, message) ==
    IF UniqueViolation(users, user, row)
    THEN Raised
    ELSE Returned(Out(StorePut(users, user, row), nextId, g.sess,
                      as_json_response(c, view, "POST", g.role, 200, message)))

\* (mutant) the claimed current email is not compared with the stored one
UserEmailAPIView_update_unchecked(c, g, post) ==
    LET view == "shop:api_user_email"
        cu == get_current_user(g.sess, users)
    IN IF ~ChangeEmailForm_is_valid(post)
       THEN ApiResult(c, view, g, 412, "Parameters format not correct error.")
       ELSE IF cu.user = NoUser
            THEN Raised
            ELSE ApiSave(c, view, g, cu.user,
                         [users[cu.user] EXCEPT !.email = post.new_email],
                         "User-email changed successful.")

UserEmailAPIView_update(c, g, post) ==
    LET view == "shop:api_user_email"
        cu == get_current_user(g.sess, users)
    IN IF ~ChangeEmailForm_is_valid(post)
       THEN ApiResult(c, view, g, 412, "Parameters format not correct error.")
       ELSE IF cu.user = NoUser
            THEN Raised                            \* None.email: AttributeError
            ELSE IF users[cu.user].email = post.curr_email
                 THEN ApiSave(c, view, g, cu.user,
                              [users[cu.user] EXCEPT !.email = post.new_email],
                              "User-email changed successful.")
                 ELSE ApiResult(c, view, g, 412,
                                "The current user-email is incorrect.")

\* (mutant) the current password is checked before the two new ones are
\* compared
UserPasswordAPIView_update_current_first(c, g, post) ==
    LET view == "shop:api_user_password"
        cu == get_current_user(g.sess, users)
    IN IF ~ChangePasswordBEForm_is_valid(post)
       THEN ApiResult(c, view, g, 412, "Parameters format not correct error.")
       ELSE IF cu.user = NoUser
            THEN Raised
            ELSE IF ~check_password(users[cu.user], post.curr_password)
                 THEN ApiResult(c, view, g, 412,
                                "The current user-password is incorrect.")
                 ELSE IF post.new_password # post.new_password_again
                      THEN ApiResult(c, view, g, 412,
                                     "Two new passwords do not match.")
                      ELSE ApiSave(c, view, g, cu.user,
                                   [users[cu.user] EXCEPT
                                       !.password = post.new_password],
                                   "User-password changed successful.")

UserPasswordAPIView_update(c, g, post) ==
    LET view == "shop:api_user_password"
        cu == get_current_user(g.sess, users)
    IN IF ~ChangePasswordBEForm_is_valid(post)
       THEN ApiResult(c, view, g, 412, "Parameters format not correct error.")
       ELSE IF post.new_password # post.new_password_again
            THEN ApiResult(c, view, g, 412, "Two new passwords do not match.")
            ELSE IF cu.user = NoUser
                 THEN Raised             \* None.check_password: AttributeError
                 ELSE IF check_password(users[cu.user], post.curr_password)
                      THEN ApiSave(c, view, g, cu.user,
                                   [users[cu.user] EXCEPT
                                       !.password = post.new_password],
                                   "User-password changed successful.")
                      ELSE ApiResult(c, view, g, 412,
                                     "The current user-password is incorrect.")

\* getattr(self, name) for a name in api_method_names
ApiHandler(c, view, g, name, post) ==
    IF name = "update" /\ view = "shop:api_user_email"
    THEN UserEmailAPIView_update(c, g, post)
    ELSE IF name = "update" /\ view = "shop:api_user_password"
         THEN UserPasswordAPIView_update(c, g, post)
         ELSE ApiResult(c, view, g, 405,
                        CASE name = "pull" -> "Pulls is not supported."
                          [] name = "create" -> "Creation is not supported."
                          [] name = "update" -> "Updates are not supported."
                          [] OTHER -> "Deletion are not supported.")

\* (mutant) any _ext_method that is present is looked up
APIView_post_any_name(c, view, g, post) ==
    IF post.ext_method # NONE
    THEN ApiHandler(c, view, g, post.ext_method, post)
    ELSE ApiResult(c, view, g, 405, "Failure to match the appropriate method.")

APIView_post(c, view, g, post) ==
    IF post.ext_method # NONE /\ post.ext_method \in api_method_names
    THEN ApiHandler(c, view, g, post.ext_method, post)
    ELSE ApiResult(c, view, g, 405, "Failure to match the appropriate method.")

APIView_get(c, view, g) ==
    Returned(Out(users, nextId, g.sess,
        IF view = "shop:api_unauthorized_error"
        THEN as_json_response(c, view, "GET", g.role, 403,
                              "No access for unauthorized.")
        ELSE IF view = "shop:api_server_error"
             THEN as_json_response(c, view, "GET", g.role, 500,
                                   "Internal server error.")
             ELSE as_json_response(c, view, "GET", g.role, 405,
                                   "Getting is not supported.")))

\* (mutant) dispatch without its try / except
APIView_dispatch_uncaught(c, view, method, post) ==
    LET g == user_auth(c, AllRoles, "shop:api_unauthorized_error")
        r == IF method = "GET" THEN APIView_get(c, view, g)
                               ELSE APIView_post(c, view, g, post)
    IN IF ~g.authorized
       THEN Unauthorized(c, view, method, g)
       ELSE IF r.raised
            THEN UncaughtException(c, view, method, g.role, g.sess)
            ELSE r.out

APIView_dispatch(c, view, method, post) ==
    LET g == user_auth(c, AllRoles, "shop:api_unauthorized_error")
        r == IF method = "GET" THEN APIView_get(c, view, g)
                               ELSE APIView_post(c, view, g, post)
    IN IF ~g.authorized
       THEN Unauthorized(c, view, method, g)
       ELSE IF r.raised
            THEN Out(users, nextId, g.sess,                     \* except Exception
                     HttpResponseRedirect(c, view, method, TRUE, g.role,
                                          "shop:api_server_error"))
            ELSE r.out

(***************************************************************************)
(* Requests.                                                               *)
(***************************************************************************)
PageViews == {"shop:goods_list", "shop:register", "shop:login", "shop:logout",
              "shop:member_info", "shop:change_member_email",
              "shop:change_member_password", "shop:center", "shop:error_403"}

\* the URL configuration: the handler of a GET of a page
PageGet(c, view) ==
    CASE view = "shop:goods_list" -> GoodsListView_get(c)
      [] view = "shop:register" -> RegisterView_get(c)
      [] view = "shop:login" -> LoginView_get(c)
      [] view = "shop:logout" -> logout_view(c)
      [] view = "shop:member_info" -> MemberInfoView_get(c)
      [] view = "shop:change_member_email" -> ChangeMemberEmailView_get(c)
      [] view = "shop:change_member_password" -> ChangeMemberPasswordView_get(c)
      [] view = "shop:center" -> center_enter_view(c)
      [] OTHER -> error_403_view(c)

\* sample requests: well-formed ones over two usernames, two emails and two
\* digests, and one malformed value for each field
RegisterInputs ==
    {RegisterPost(u, e, Digest1, pa) :
        u \in {"abc", "def"}, e \in {"a@b.com", "c@d.org"},
        pa \in {Digest1, Digest2}}
    \cup {RegisterPost("ab", "a@b.com", Digest1, Digest1),
          RegisterPost("abc", "a@b", Digest1, Digest1),
          RegisterPost("abc", "a@b.com", RawPassword, RawPassword)}

LoginInputs ==
    {LoginPost(u, p) : u \in {"abc", "def"}, p \in {Digest1, Digest2}}
    \cup {LoginPost("ab", Digest1), LoginPost("abc", RawPassword)}

ExtMethodInputs == {NONE, "pull", "create", "delete", "get", "dispatch"}

NoApiPost(m) == ApiPost(m, NONE, NONE, NONE, NONE, NONE)

EmailApiInputs ==
    {ApiPost("update", ce, ne, NONE, NONE, NONE) :
        ce \in {"a@b.com", "c@d.org"}, ne \in {"a@b.com", "c@d.org"}}
    \cup {ApiPost("update", "a@b", "a@b.com", NONE, NONE, NONE),
          ApiPost("update", "a@b.com", "a@b", NONE, NONE, NONE)}

PasswordApiInputs ==
    {ApiPost("update", NONE, NONE, cp, np, npa) :
        cp \in {Digest1, Digest2}, np \in {Digest2}, npa \in {Digest1, Digest2}}
    \cup {ApiPost("update", NONE, NONE, Digest1, RawPassword, RawPassword)}

ApiInputs(view, method) ==
    IF method = "GET" THEN {NoApiPost(NONE)}
    ELSE {NoApiPost(m) : m \in ExtMethodInputs} \cup
         (IF view = "shop:api_user_email" THEN EmailApiInputs
          ELSE IF view = "shop:api_user_password" THEN PasswordApiInputs
          ELSE {NoApiPost("update")})

InFlight == {c \in Clients : reg[c].pc # "idle"}

\* a client sends its next request once the previous one was answered
Ready(c) == reg[c].pc = "idle"

Do(c, out) ==
    /\ users' = out.users
    /\ nextId' = out.nextId
    /\ session' = [session EXCEPT ![c] = out.sess]
    /\ resp' = IF out.reg.pc = "idle"
               THEN [out.resp EXCEPT !.dangling = Dangling(session[c], users)]
               ELSE resp
    /\ reg' = [reg EXCEPT ![c] = out.reg]
    /\ UNCHANGED <<goods, listing>>

Get(c, view) ==
    /\ Ready(c)
    /\ Do(c, PageGet(c, view))

Login(c, post) ==
    /\ Ready(c)
    /\ Do(c, LoginView_post(c, post))

\* the store hands out ids up to MaxUsers: a registration that goes on to
\* the INSERT needs one left
Register(c, post) ==
    /\ Ready(c)
    /\ LET out == RegisterView_post(c, post)
       IN /\ out.reg.pc # "idle" => nextId + Cardinality(InFlight) <= MaxUsers
          /\ Do(c, out)

RegisterEmail(c) ==
    /\ reg[c].pc = "email"
    /\ Do(c, RegisterView_post_email(c))

RegisterSave(c) ==
    /\ reg[c].pc = "save"
    /\ Do(c, RegisterView_post_save(c))

Api(c, view, method, post) ==
    /\ Ready(c)
    /\ Do(c, APIView_dispatch(c, view, method, post))

\* the site's administration: a User row is deleted, or given another role
AdminDelete(u) ==
    /\ u \in DOMAIN users
    /\ users' = [i \in DOMAIN users \ {u} |-> users[i]]
    /\ UNCHANGED <<nextId, session, reg, resp, goods, listing>>

AdminSetType(u, t) ==
    /\ u \in DOMAIN users
    /\ users[u].type # t
    /\ users' = [users EXCEPT ![u].type = t]
    /\ UNCHANGED <<nextId, session, reg, resp, goods, listing>>

\* sample goods names, search texts (one of them empty) and seller ids (an
\* id never handed out, a text that is no number, an empty text)
GoodsNames == {"pc", "pad"}
SearchInputs == {NONE, "p", "pc", "ad", "x", ""}
SellerInputs == {NONE, "1", "2", "9", "abc", ""}
GoodsInputs == {GoodsGet(g, s) : g \in SearchInputs, s \in SellerInputs}

GoodsList(c, GET) ==
    /\ Ready(c)
    /\ LET r == GoodsListView_list(c, GET)
       IN /\ users' = r.out.users
          /\ nextId' = r.out.nextId
          /\ session' = [session EXCEPT ![c] = r.out.sess]
          /\ resp' = [r.out.resp EXCEPT !.dangling = Dangling(session[c], users)]
          /\ listing' = Listing(c, GET, r.out.resp.status, r.object_list)
    /\ UNCHANGED <<reg, goods>>

\* a Goods row is added for a seller (outside the views)
AdminAddGoods(goods_name, seller_id) ==
    /\ Cardinality(DOMAIN goods) < MaxGoods
    /\ seller_id \in DOMAIN users
    /\ goods' = [i \in DOMAIN goods \cup {Cardinality(DOMAIN goods) + 1} |->
                    IF i \in DOMAIN goods THEN goods[i]
                    ELSE NewGoods(goods_name, seller_id)]
    /\ UNCHANGED <<users, nextId, session, reg, resp, listing>>

NoResponse ==
    Response(0, NONE, NONE, FALSE, "-", 0, NONE, {}, NoForm, NONE)

Init ==
    /\ users = [i \in {} |-> NewUser(NONE, NONE, NONE)]
    /\ nextId = 1
    /\ session = [c \in Clients |-> EmptySession]
    /\ reg = [c \in Clients |-> Idle]
    /\ resp = NoResponse
    /\ goods = NoGoods
    /\ listing = NoListing

\* the shop as its own handlers populate it: every User has the default role
Next ==
    \/ \E c \in Clients, view \in PageViews : Get(c, view)
    \/ \E c \in Clients, post \in LoginInputs : Login(c, post)
    \/ \E c \in Clients, post \in RegisterInputs : Register(c, post)
    \/ \E c \in Clients : RegisterEmail(c)
    \/ \E c \in Clients : RegisterSave(c)
    \/ \E c \in Clients, view \in EmailApiViews, method \in {"GET", "POST"} :
          \E post \in ApiInputs(view, method) : Api(c, view, method, post)
    \/ \E u \in 1..MaxUsers : AdminDelete(u)

Spec == Init /\ [][Next]_vars

\* the pages, login and registration with sellers and administrators
\* appointed
NextRoles ==
    \/ \E c \in Clients, view \in PageViews : Get(c, view)
    \/ \E c \in Clients, post \in LoginInputs : Login(c, post)
    \/ \E c \in Clients, post \in RegisterInputs : Register(c, post)
    \/ \E c \in Clients : RegisterEmail(c)
    \/ \E c \in Clients : RegisterSave(c)
    \/ \E u \in 1..MaxUsers, t \in RoleNames : AdminSetType(u, t)

SpecRoles == Init /\ [][NextRoles]_vars

\* registration, login and the password endpoint
NextPassword ==
    \/ \E c \in Clients, post \in LoginInputs : Login(c, post)
    \/ \E c \in Clients, post \in RegisterInputs : Register(c, post)
    \/ \E c \in Clients : RegisterEmail(c)
    \/ \E c \in Clients : RegisterSave(c)
    \/ \E c \in Clients, method \in {"GET", "POST"} :
          \E post \in ApiInputs("shop:api_user_password", method) :
             Api(c, "shop:api_user_password", method, post)

SpecPassword == Init /\ [][NextPassword]_vars

\* the listing over a store set up as the tests of the listing do: some
\* sellers created directly, then Goods rows added for them
SellerNames == <<"abc", "def", "ghi">>
SellerEmails == <<"a@qq.com", "b@qq.com", "c@qq.com">>

InitGoods ==
    /\ \E n \in 0..MaxUsers :
          /\ users = [i \in 1..n |-> NewUser(SellerNames[i], SellerEmails[i], "123")]
          /\ nextId = n + 1
    /\ session = [c \in Clients |-> EmptySession]
    /\ reg = [c \in Clients |-> Idle]
    /\ resp = NoResponse
    /\ goods = NoGoods
    /\ listing = NoListing

NextGoods ==
    \/ \E n \in GoodsNames, u \in 1..MaxUsers : AdminAddGoods(n, u)
    \/ \E c \in Clients, GET \in GoodsInputs : GoodsList(c, GET)

SpecGoods == InitGoods /\ [][NextGoods]_vars

(***************************************************************************)
(* Claims.                                                                 *)
(***************************************************************************)
SessionValid(sess, us) == "user_id" \notin DOMAIN sess \/ sess["user_id"] \in DOMAIN us

SessionsValid == \A c \in Clients : SessionValid(session[c], users)

\* the caller of a request resolves to no user
Anonymous(c) == get_current_user(session[c], users).user = NoUser

\* C1: every step that deletes no User (every register, login, logout, page
\* and API step) keeps each session either without a user_id or with the id
\* of an existing User; get_current_user on a session whose user_id names no
\* User returns None and leaves the session without a user_id, and so does a
\* page request that resolves the current user.
C1_SessionBoundToExistingUser ==
    /\ [][(SessionsValid /\ DOMAIN users \subseteq DOMAIN users')
            => SessionsValid']_vars
    /\ [](\A c \in Clients :
            Dangling(session[c], users) =>
                LET cu == get_current_user(session[c], users)
                IN cu.user = NoUser /\ "user_id" \notin DOMAIN cu.sess)
    /\ [][\A c \in Clients :
            (Dangling(session[c], users) /\ Get(c, "shop:goods_list"))
                => (resp'.status = 200 /\ "user_id" \notin DOMAIN session'[c])]_vars

\* a page request arrived with a dangling session and left it without user_id
C1_Witness ==
    /\ resp.view = "shop:goods_list"
    /\ resp.dangling
    /\ resp.client \in Clients
    /\ "user_id" \notin DOMAIN session[resp.client]

\* the role the caller of a request resolves to (NONE for anonymous)
CallerRole(c) ==
    LET cu == get_current_user(session[c], users)
    IN IF cu.user = NoUser THEN NONE ELSE users[cu.user].type

\* the requests that reach a handler wrapped by user_auth
C2_Requests ==
    {[view |-> "shop:register", method |-> "POST", post |-> p] : p \in RegisterInputs}
    \cup {[view |-> "shop:login", method |-> "POST", post |-> p] : p \in LoginInputs}
    \cup {[view |-> v, method |-> "GET", post |-> NoPost] :
             v \in PageViews \ {"shop:goods_list", "shop:logout", "shop:error_403"}}
    \cup UNION {{[view |-> v, method |-> m, post |-> p] : p \in ApiInputs(v, m)} :
                   v \in ApiViews, m \in {"GET", "POST"}}

C2_Handle(c, rq) ==
    IF rq.view \in ApiViews THEN APIView_dispatch(c, rq.view, rq.method, rq.post)
    ELSE IF rq.method = "GET" THEN PageGet(c, rq.view)
    ELSE IF rq.view = "shop:login" THEN LoginView_post(c, rq.post)
    ELSE RegisterView_post(c, rq.post)

\* the required specification of each wrapped handler, as a set of roles
C2_Required(view) ==
    IF view \in {"shop:register", "shop:login"} THEN {NONE}
    ELSE IF view \in {"shop:member_info", "shop:change_member_email",
                      "shop:change_member_password"} THEN {"normal"}
    ELSE {"normal", "seller", "admin"}

C2_ErrorView(view) ==
    IF view \in {"shop:register", "shop:login"} THEN "shop:logout"
    ELSE IF view \in {"shop:member_info", "shop:change_member_email",
                      "shop:change_member_password"} THEN "shop:error_403"
    ELSE IF view = "shop:center" THEN "shop:login"
    ELSE "shop:api_unauthorized_error"

\* C2: for every wrapped handler and every request, the handler body runs
\* iff the caller's resolved role is in the required specification;
\* otherwise the response is a redirect to the handler's error view, the
\* body does not run and the store is untouched.
C2_GuardRunsBodyIffRoleRequired ==
    \A c \in Clients : Ready(c) =>
        \A rq \in C2_Requests :
            LET o == C2_Handle(c, rq)
                ran == o.resp.ran \/ o.reg.pc # "idle"
            IN /\ ran <=> CallerRole(c) \in C2_Required(rq.view)
               /\ ~ran => /\ o.resp.status = 302
                          /\ o.resp.location = C2_ErrorView(rq.view)
                          /\ o.resp.view = rq.view
                          /\ o.users = users
                          /\ o.nextId = nextId
                          /\ o.reg = Idle

\* a seller was refused the member page, which requires the role normal
C2_Witness ==
    /\ resp.view = "shop:member_info"
    /\ resp.role = "seller"
    /\ ~resp.ran
    /\ resp.status = 302
    /\ resp.location = "shop:error_403"

\* C3: an anonymous caller of a JSON API endpoint is redirected by the guard,
\* and the request that follows the redirect (a GET of the unauthorized-error
\* view by the same anonymous caller) ends with the JSON error envelope of
\* status 403, not with another redirect.
C3_AnonymousApiCallEnds403 ==
    \A c \in Clients :
        (/\ resp.client = c
         /\ resp.view \in {"shop:api_user_email", "shop:api_user_password"}
         /\ resp.role = NONE
         /\ Ready(c) /\ Anonymous(c))
        => /\ resp.status = 302
           /\ LET hop == APIView_dispatch(c, resp.location, "GET", NoApiPost(NONE))
              IN /\ hop.resp.status = 403
                 /\ hop.resp.json = "No access for unauthorized."

\* C4: two well-formed login attempts of an anonymous caller that both fail,
\* one naming no User and one naming a User with another password, get the
\* same response (the generic error on the username and the password field,
\* status 200) and leave the same session and the unchanged store.
C4_LoginFailuresIndistinguishable ==
    \A c \in Clients : (Ready(c) /\ Anonymous(c)) =>
        \A p1 \in LoginInputs, p2 \in LoginInputs :
            (/\ LoginBEForm_is_valid(p1) /\ LoginBEForm_is_valid(p2)
             /\ \A u \in DOMAIN users : users[u].username # p1.username
             /\ \E u \in DOMAIN users :
                   /\ users[u].username = p2.username
                   /\ ~check_password(users[u], p2.password))
            => LET o1 == LoginView_post(c, p1)
                   o2 == LoginView_post(c, p2)
               IN /\ o1.resp = o2.resp
                  /\ o1.resp.status = 200
                  /\ o1.resp.errors = {<<"username", LoginError>>,
                                       <<"password", LoginError>>}
                  /\ o1.sess = o2.sess
                  /\ "user_id" \notin DOMAIN o1.sess
                  /\ o1.users = users /\ o2.users = users

\* a login was answered with the generic error while the store holds a User
\* whose username is one of the sample usernames and lacks another
C4_Witness ==
    /\ resp.view = "shop:login"
    /\ resp.method = "POST"
    /\ resp.errors = {<<"username", LoginError>>, <<"password", LoginError>>}
    /\ \E p \in LoginInputs : \E u \in DOMAIN users :
          users[u].username = p.username /\ ~check_password(users[u], p.password)
    /\ \E p \in LoginInputs :
          LoginBEForm_is_valid(p) /\ UsersByUsername(users, p.username) = {}

\* C5: a login request of an anonymous caller binds the session to User u
\* iff the submitted username is u's and the submitted password hash equals
\* u's stored one; then the response redirects to the goods listing and
\* get_current_user returns u; otherwise the session stays without user_id.
\* The store is unchanged either way.
C5_LoginBindsIffCredentialsMatch ==
    \A c \in Clients : (Ready(c) /\ Anonymous(c)) =>
        \A p \in LoginInputs :
            LET o == LoginView_post(c, p)
                cu == get_current_user(o.sess, o.users)
                match == {u \in DOMAIN users :
                             /\ users[u].username = p.username
                             /\ check_password(users[u], p.password)}
            IN /\ o.users = users
               /\ \A u \in DOMAIN users :
                     ("user_id" \in DOMAIN o.sess /\ o.sess["user_id"] = u)
                        <=> u \in match
               /\ match # {} => /\ o.resp.status = 302
                                /\ o.resp.location = "shop:goods_list"
                                /\ cu.user \in match
                                /\ cu.sess = o.sess
               /\ match = {} => /\ "user_id" \notin DOMAIN o.sess
                                /\ o.resp.status = 200
                                /\ o.resp.errors # {}

\* a login succeeded: redirect to the listing, session bound to a User
C5_Witness ==
    /\ resp.view = "shop:login"
    /\ resp.method = "POST"
    /\ resp.status = 302
    /\ resp.location = "shop:goods_list"
    /\ resp.client \in Clients
    /\ "user_id" \in DOMAIN session[resp.client]
    /\ session[resp.client]["user_id"] \in DOMAIN users

AllFormatErrors == {<<f, FormatError>> : f \in RegisterFields}

UsernameTaken(username) == \E u \in DOMAIN users : users[u].username = username
EmailTaken(email) == \E u \in DOMAIN users : users[u].email = email

\* a registration ended without a User, a change of a User or a binding
C6_Rejected(o) ==
    /\ o.reg = Idle
    /\ o.resp.status = 200
    /\ o.resp.errors # {}
    /\ o.users = users
    /\ o.nextId = nextId
    /\ "user_id" \notin DOMAIN o.sess

\* C6: a registration request of an anonymous caller whose username or email
\* is that of an existing User is rejected with a field error: a taken
\* username is reported at the username query, before the email is looked at,
\* a taken email at the email query; no User is created or changed and the
\* session stays unbound.  (A malformed request gets the format error.)
C6_DuplicateRegistrationRejected ==
    /\ \A c \in Clients : (Ready(c) /\ Anonymous(c)) =>
          \A p \in RegisterInputs :
              LET o == RegisterView_post(c, p)
              IN /\ UsernameTaken(p.username) =>
                       /\ C6_Rejected(o)
                       /\ RegisterBEForm_is_valid(p) =>
                             o.resp.errors = {<<"username", UsernameUsed>>}
                 /\ (EmailTaken(p.email) /\ ~RegisterBEForm_is_valid(p)) =>
                       C6_Rejected(o)
                 /\ (~UsernameTaken(p.username) /\ RegisterBEForm_is_valid(p)) =>
                       (o.reg.pc = "email" /\ o.users = users)
    /\ \A c \in Clients : (reg[c].pc = "email" /\ EmailTaken(reg[c].post.email)) =>
          LET o == RegisterView_post_email(c)
          IN /\ C6_Rejected(o)
             /\ o.resp.errors = {<<"email", EmailUsed>>}

\* a registration was refused for its email, which a User holds
C6_Witness ==
    /\ resp.view = "shop:register"
    /\ resp.errors = {<<"email", EmailUsed>>}
    /\ EmailTaken(resp.form[2])
    /\ ~UsernameTaken(resp.form[1])
    /\ resp.client \in Clients
    /\ "user_id" \notin DOMAIN session[resp.client]

C7_Example(password) == RegisterPost("abc", "a@b.com", password, password)

\* C7 as stated: the example with the password "12345678" as typed, sent by
\* an anonymous caller to an empty store, passes the form check and goes on
\* to create the User.
C7_RawExampleSucceeds ==
    [][\A c \in Clients :
          (/\ Anonymous(c)
           /\ DOMAIN users = {}
           /\ Register(c, C7_Example(RawPassword)))
          => reg'[c].pc = "email"]_vars

\* C7 (amended): with password and password_again the 64-character hex digest
\* of "12345678", the example sent by an anonymous caller to an empty store
\* passes both queries and its INSERT creates the one User, binds the session
\* and redirects to the listing; sent again by an anonymous caller while that
\* User exists it fails with "username already used" on the username field.
C7_HashedExampleSucceedsOnce ==
    LET p == C7_Example(Digest1)
    IN /\ \A c \in Clients : (Ready(c) /\ Anonymous(c)) =>
             LET o == RegisterView_post(c, p)
             IN IF UsernameTaken("abc")
                THEN /\ C6_Rejected(o)
                     /\ o.resp.errors = {<<"username", UsernameUsed>>}
                ELSE o.reg = [pc |-> "email", post |-> p]
       /\ \A c \in Clients : (reg[c] = [pc |-> "email", post |-> p]
                              /\ DOMAIN users = {}) =>
             RegisterView_post_email(c).reg = [pc |-> "save", post |-> p]
       /\ \A c \in Clients : (reg[c] = [pc |-> "save", post |-> p]
                              /\ DOMAIN users = {}) =>
             LET o == RegisterView_post_save(c)
             IN /\ DOMAIN o.users = {nextId}
                /\ o.users[nextId].username = "abc"
                /\ o.users[nextId].email = "a@b.com"
                /\ o.users[nextId].password = Digest1
                /\ o.sess = [user_id |-> nextId]
                /\ o.resp.status = 302
                /\ o.resp.location = "shop:goods_list"

\* the example was registered, and a second attempt was refused
C7_Witness ==
    /\ DOMAIN users = {1}
    /\ users[1] = NewUser("abc", "a@b.com", Digest1)
    /\ resp.view = "shop:register"
    /\ resp.form = <<"abc", "a@b.com">>
    /\ resp.errors = {<<"username", UsernameUsed>>}
    /\ \E c \in Clients : session[c] = [user_id |-> 1]

\* C8: a registration that passed both uniqueness queries and finds, at its
\* INSERT, its username or email taken by a User saved meanwhile creates no
\* User: it gets the format error on every form field, ends (no retry) and
\* its session is not bound; an INSERT that finds neither taken creates
\* exactly one User.  No two Users ever share a username or an email.
C8_RegistrationRaceCreatesOneUser ==
    /\ \A c \in Clients : reg[c].pc = "save" =>
          LET o == RegisterView_post_save(c)
              post == reg[c].post
          IN IF UsernameTaken(post.username) \/ EmailTaken(post.email)
             THEN /\ o.users = users
                  /\ o.nextId = nextId
                  /\ o.reg = Idle
                  /\ o.resp.status = 200
                  /\ o.resp.errors = AllFormatErrors
                  /\ "user_id" \notin DOMAIN o.sess
             ELSE /\ DOMAIN o.users = DOMAIN users \cup {nextId}
                  /\ nextId \notin DOMAIN users
                  /\ \A u \in DOMAIN users : o.users[u] = users[u]
                  /\ o.users[nextId].username = post.username
                  /\ o.users[nextId].email = post.email
                  /\ o.sess["user_id"] = nextId
    /\ \A u \in DOMAIN users, v \in DOMAIN users :
          (users[u].username = users[v].username \/ users[u].email = users[v].email)
             => u = v

\* the loser of a race got the format error on every field: the data the
\* form echoes is well-formed in every sample request, and a User holds its
\* username or its email
C8_Witness ==
    /\ resp.view = "shop:register"
    /\ resp.errors = AllFormatErrors
    /\ \A p \in RegisterInputs :
          (p.username = resp.form[1] /\ p.email = resp.form[2])
             => RegisterBEForm_is_valid(p)
    /\ UsernameTaken(resp.form[1]) \/ EmailTaken(resp.form[2])
    /\ resp.client \in Clients
    /\ "user_id" \notin DOMAIN session[resp.client]

\* C9: logout_view, whatever the session holds (nothing, the id of a User, a
\* dangling id), leaves the session empty and redirects to the login page;
\* get_current_user then returns None, and the store is unchanged.
C9_LogoutClearsSession ==
    \A c \in Clients : Ready(c) =>
        LET o == logout_view(c)
            cu == get_current_user(o.sess, o.users)
        IN /\ o.sess = EmptySession
           /\ o.resp.status = 302
           /\ o.resp.location = "shop:login"
           /\ o.users = users
           /\ o.nextId = nextId
           /\ cu.user = NoUser
           /\ cu.sess = EmptySession

\* a logout was answered for a session that held a dangling id
C9_Witness ==
    /\ resp.view = "shop:logout"
    /\ resp.dangling
    /\ resp.status = 302
    /\ resp.client \in Clients
    /\ session[resp.client] = EmptySession

\* the update requests of the email endpoint
C10_Updates == {p \in ApiInputs("shop:api_user_email", "POST") : p.ext_method = "update"}

\* C10: for a logged-in caller u, UserEmailAPIView.update changes u's stored
\* email only when the payload is well-formed and curr_email is the stored
\* email, and then to new_email; a malformed payload or another curr_email
\* gets a JSON error envelope with status 412 and changes nothing; no other
\* User is ever changed.
C10_EmailUpdateOnlyWhenCurrentMatches ==
    \A c \in Clients : (Ready(c) /\ ~Anonymous(c)) =>
        \A p \in C10_Updates :
            LET u == session[c]["user_id"]
                o == APIView_dispatch(c, "shop:api_user_email", "POST", p)
                ok == ChangeEmailForm_is_valid(p) /\ p.curr_email = users[u].email
            IN /\ DOMAIN o.users = DOMAIN users
               /\ \A v \in DOMAIN users \ {u} : o.users[v] = users[v]
               /\ o.users[u] = users[u] \/
                     (ok /\ o.users[u] = [users[u] EXCEPT !.email = p.new_email])
               /\ ~ok => /\ o.users = users
                         /\ o.resp.status = 412
                         /\ o.resp.json # NONE
                         /\ o.resp.location = NONE
               /\ o.sess = session[c]

\* an update naming another current email was refused with 412
C10_Witness ==
    /\ resp.view = "shop:api_user_email"
    /\ resp.status = 412
    /\ resp.json = "The current user-email is incorrect."
    /\ resp.client \in Clients
    /\ "user_id" \in DOMAIN session[resp.client]
    /\ session[resp.client]["user_id"] \in DOMAIN users

C11_Updates ==
    {p \in ApiInputs("shop:api_user_password", "POST") : p.ext_method = "update"}

C12_Raises(c, view, post) ==
    LET g == user_auth(c, AllRoles, "shop:api_unauthorized_error")
    IN g.authorized /\ APIView_post(c, view, g, post).raised

\* C12: when the handler of an API POST raises (here: the save of a changed
\* email hits the unique constraint), the request is answered with a redirect
\* to shop:api_server_error, not with an uncaught exception; the store and the
\* caller's session are left as they were, so that the caller's GET of that
\* target returns the JSON error envelope with status 500.
C12_ApiFailureEnds500 ==
    \A c \in Clients : Ready(c) =>
        \A view \in ApiViews : \A post \in ApiInputs(view, "POST") :
            C12_Raises(c, view, post) =>
                LET o == APIView_dispatch(c, view, "POST", post)
                    f == APIView_dispatch(c, o.resp.location, "GET", NoApiPost(NONE))
                IN /\ o.resp.status = 302
                   /\ o.resp.location = "shop:api_server_error"
                   /\ o.users = users
                   /\ o.sess = session[c]
                   /\ f.resp.status = 500
                   /\ f.resp.json = "Internal server error."
                   /\ f.resp.location = NONE
                   /\ f.users = users

\* an email update whose save raised was answered with the redirect
C12_Witness ==
    /\ resp.view = "shop:api_user_email"
    /\ resp.method = "POST"
    /\ resp.ran
    /\ resp.status = 302
    /\ resp.location = "shop:api_server_error"

\* the endpoint overrides this one of the four methods
C13_Implements(view, name) ==
    name = "update" /\ view \in {"shop:api_user_email", "shop:api_user_password"}

C13_NoMatch == "Failure to match the appropriate method."

\* the request is answered by a JSON error envelope with status 405 and
\* leaves the store and the caller's session as they were
C13_Refused(c, o) ==
    /\ o.resp.status = 405
    /\ o.resp.json # NONE
    /\ o.resp.location = NONE
    /\ o.users = users
    /\ o.nextId = nextId
    /\ o.sess = session[c]

\* C13 (as stated): every GET of an API view by an authorized caller is
\* answered with status 405.
C13_EveryGetIs405 ==
    (resp.view \in ApiViews /\ resp.method = "GET" /\ resp.ran) => resp.status = 405

\* C13 (amended): for an authorized caller, a POST without _ext_method or
\* with a value outside pull, create, update, delete (get and dispatch
\* included) runs no handler and gets 405; a POST naming one of the four that
\* the endpoint does not implement gets the 405 of the base method; a GET of
\* the email or the password endpoint gets 405; none of them changes a User
\* or the session.  A GET of the two error endpoints returns their own
\* envelope, 403 and 500.
C13_UnsupportedCallsGet405 ==
    \A c \in Clients : (Ready(c) /\ ~Anonymous(c)) =>
        \A view \in ApiViews :
            /\ \A post \in ApiInputs(view, "POST") :
                  LET o == APIView_dispatch(c, view, "POST", post)
                  IN /\ post.ext_method \notin api_method_names =>
                           C13_Refused(c, o) /\ o.resp.json = C13_NoMatch
                     /\ (/\ post.ext_method \in api_method_names
                         /\ ~C13_Implements(view, post.ext_method)) =>
                           C13_Refused(c, o) /\ o.resp.json # C13_NoMatch
            /\ LET o == APIView_dispatch(c, view, "GET", NoApiPost(NONE))
               IN /\ view \in {"shop:api_user_email", "shop:api_user_password"} =>
                        C13_Refused(c, o)
                  /\ view = "shop:api_unauthorized_error" => o.resp.status = 403
                  /\ view = "shop:api_server_error" => o.resp.status = 500
                  /\ o.users = users /\ o.sess = session[c]

\* a logged-in caller's POST that matched no method was refused
C13_Witness ==
    /\ resp.view = "shop:api_user_email"
    /\ resp.method = "POST"
    /\ resp.ran
    /\ resp.status = 405
    /\ resp.json = C13_NoMatch

\* the decimal text of a User id
C14_IdText(u) == SubSeq(Digits, u + 1, u + 1)

C14_SellerExists(s) == \E u \in DOMAIN users : s = C14_IdText(u)

\* the goods whose name contains g (when given) and whose seller is s (when
\* given)
C14_Matching(g, s) ==
    {i \in DOMAIN goods :
        /\ g # NONE => \E k \in 0..Len(goods[i].goods_name) : \E n \in 0..Len(goods[i].goods_name) :
                          /\ k + n <= Len(goods[i].goods_name)
                          /\ n = Len(g)
                          /\ \A j \in 1..n : CharAt(goods[i].goods_name, k + j) = CharAt(g, j)
        /\ s # NONE => s = C14_IdText(goods[i].seller_id)}

\* C14 (as stated): for every goods store, optional search text g and
\* optional seller id s, the listing returns exactly the goods whose name
\* contains g (when given) and whose seller is s (when given), and when s is
\* given and is not the id of an existing User the response is 404 whatever
\* g is.
C14_ListingFiltersOr404 ==
    [][\A c \in Clients, GET \in GoodsInputs :
          GoodsList(c, GET) =>
             IF GET.s # NONE /\ ~C14_SellerExists(GET.s)
             THEN listing'.status = 404
             ELSE /\ listing'.status = 200
                  /\ listing'.object_list = C14_Matching(GET.g, GET.s)]_vars

\* what holds of C14: the same, for an s that is a decimal number
C14_NumericSellerFiltersOr404 ==
    \A c \in Clients : \A GET \in GoodsInputs :
        (GET.s # NONE => IsIntLiteral(GET.s)) =>
            LET r == GoodsListView_list(c, GET)
            IN /\ IF GET.s # NONE /\ ~C14_SellerExists(GET.s)
                  THEN r.out.resp.status = 404 /\ r.object_list = {}
                  ELSE /\ r.out.resp.status = 200
                       /\ r.object_list = C14_Matching(GET.g, GET.s)
               /\ r.out.users = users

\* a listing with both filters given returned one of a seller's two goods
C14_NumericWitness ==
    /\ listing.status = 200
    /\ listing.g # NONE /\ listing.s # NONE
    /\ Cardinality(listing.object_list) = 1
    /\ \E i \in DOMAIN goods \ listing.object_list :
          listing.s = C14_IdText(goods[i].seller_id)

\* a listing asked for a seller id that is no number was answered with the
\* server's error page
C14_Witness ==
    /\ listing.client \in Clients
    /\ listing.s = "abc"
    /\ listing.g = "pc"
    /\ listing.status = 500
    /\ DOMAIN goods # {}

\* C15 (as stated): for a logged-in user of each of the roles normal, seller
\* and admin, center_enter_view answers with a redirect, and the redirect
\* goes to the member info page whatever the role.
C15_CenterRedirectsEveryRole ==
    (resp.view = "shop:center" /\ resp.ran /\ resp.role \in RoleNames) =>
        /\ resp.status = 302
        /\ resp.location = "shop:member_info"

\* a logged-in seller asked for the center and got the server's error page
C15_Witness ==
    /\ resp.view = "shop:center"
    /\ resp.ran
    /\ resp.role = "seller"
    /\ resp.status = 500
    /\ resp.location = NONE

\* the four requests for the register and the login page
C16_Requests(c) ==
    {RegisterView_get(c), LoginView_get(c)}
    \cup {RegisterView_post(c, p) : p \in RegisterInputs}
    \cup {LoginView_post(c, p) : p \in LoginInputs}

\* C16: a logged-in user's request for the register or the login page (GET
\* or POST) does not run the handler: the guard answers with the redirect to
\* logout and leaves store and session as they are; logout, from any
\* session, clears it and redirects to login; and the login page, asked for
\* with a cleared session, is shown to a caller who stays anonymous.  Each
\* answer's state is the next request's, so the redirects end after three
\* requests at the login page, and no User is created or changed on the way.
C16_LoggedInVisitorEndsAtLogin ==
    \A c \in Clients : Ready(c) =>
        /\ ~Anonymous(c) =>
              \A o \in C16_Requests(c) :
                 /\ ~o.resp.ran
                 /\ o.resp.status = 302
                 /\ o.resp.location = "shop:logout"
                 /\ o.users = users /\ o.nextId = nextId
                 /\ o.sess = session[c]
                 /\ o.reg = Idle
        /\ LET o == PageGet(c, "shop:logout")
           IN /\ o.resp.status = 302
              /\ o.resp.location = "shop:login"
              /\ o.sess = EmptySession
              /\ o.users = users /\ o.nextId = nextId
        /\ session[c] = EmptySession =>
              LET o == PageGet(c, "shop:login")
              IN /\ o.resp.ran
                 /\ o.resp.view = "shop:login"
                 /\ o.resp.status = 200
                 /\ o.resp.location = NONE
                 /\ o.sess = EmptySession
                 /\ o.users = users /\ o.nextId = nextId

\* a logged-in user's registration was turned away to logout while the
\* store held that user
C16_Witness ==
    /\ resp.view = "shop:register"
    /\ resp.method = "POST"
    /\ ~resp.ran
    /\ resp.status = 302
    /\ resp.location = "shop:logout"
    /\ resp.client \in Clients
    /\ ~Anonymous(resp.client)

\* C17: whatever registrations and email changes have run, and however the
\* steps of concurrent registrations interleaved, no two Users share a
\* username and no two share an email; and an email change whose new_email
\* is the email of another User leaves the store as it is.
C17_UsernamesAndEmailsStayUnique ==
    /\ \A u \in DOMAIN users : \A v \in DOMAIN users \ {u} :
          /\ users[u].username # users[v].username
          /\ users[u].email # users[v].email
    /\ \A c \in Clients : (Ready(c) /\ ~Anonymous(c)) =>
          \A p \in C10_Updates :
              LET u == session[c]["user_id"]
                  o == APIView_dispatch(c, "shop:api_user_email", "POST", p)
              IN (\E v \in DOMAIN users \ {u} : users[v].email = p.new_email) =>
                    /\ o.users = users
                    /\ o.resp.status # 200

\* with two Users in the store, an email change to the other one's email
\* (the current email given rightly) was turned into the redirect
C17_Witness ==
    /\ Cardinality(DOMAIN users) = 2
    /\ resp.view = "shop:api_user_email"
    /\ resp.status = 302
    /\ resp.location = "shop:api_server_error"
    /\ resp.client \in Clients
    /\ ~Anonymous(resp.client)
    /\ \E v \in DOMAIN users : v # session[resp.client]["user_id"]

====
